---- MODULE Spec2Model ----
(***************************************************************************)
(* stockpile-api: the generic endpoint factory (services/endpoint.js), the *)
(* authentication controller (controllers/auth.js) and the kit controller  *)
(* (controllers/kit.js), over an abstract relational store.                *)
(*                                                                         *)
(* The row gateway (services/db.js) is not part of the sources at hand; it *)
(* is modelled from its description (the Db* definitions).                 *)
(***************************************************************************)
EXTENDS Integers, Sequences, FiniteSets, TLC

VARIABLES
    users,          \* table 'user': set of user rows
    refreshTokens,  \* table 'refreshToken': sequence of rows in the store's scan order
    rows,           \* a resource table with an organizationID column: row id -> row, or NoRow
    req,            \* the requests in flight: slot -> request record
    now,            \* the clock, in minutes
    entropy,        \* the number of values drawn from crypto.randomBytes so far
    probe,          \* the last call of a pure function: its arguments and result
    issued,         \* history: the refresh-token rows in the order they were persisted
    authOK,         \* history: userID -> number of 'Authentication successful' responses sent
    authFailSeen,   \* history: the (cause, response) pairs of failed authentications
    accepted,       \* history: (userID, refreshToken) pairs accepted since the last token write
    removed         \* history: the ids whose row a delete removed and no create has written since

storeVars == <<users, refreshTokens, rows>>
histVars  == <<issued, authOK, authFailSeen, accepted, removed>>
vars      == <<users, refreshTokens, rows, req, now, entropy, probe,
               issued, authOK, authFailSeen, accepted, removed>>

(***************************************************************************)
(* JavaScript values                                                       *)
(***************************************************************************)

\* JavaScript's undefined, among strings
Undefined == "<undefined>"

\* A string is truthy unless it is undefined or empty
Truthy(s) == s \notin {Undefined, ""}

\* a || b on strings
Or(a, b) == IF Truthy(a) THEN a ELSE b

\* object[key], undefined when the key is absent
Lookup(obj, key) == IF key \in DOMAIN obj THEN obj[key] ELSE Undefined

(***************************************************************************)
(* Error classification: services/endpoint.js                              *)
(***************************************************************************)

MessageTypes == {"create", "delete", "conflict", "missing", "badRequest", "default"}

defaultMessages ==
    [create     |-> "Created",
     delete     |-> "Deleted",
     conflict   |-> "Already exists",
     missing    |-> "Does not exist",
     badRequest |-> "Wrong fields",
     default    |-> "Something went wrong"]

\* The empty messages object, the default of chooseMessage's parameter
NoMessages == [k \in {} |-> ""]

\* A faulty variant of chooseMessage: the custom message is ignored
chooseMessageIgnoringCustom(type, messages) ==
    Or(Lookup(defaultMessages, type), defaultMessages["default"])

\* messages[type] || defaultMessages[type] || defaultMessages.default
chooseMessage(type, messages) ==
    Or(Lookup(messages, type),
       Or(Lookup(defaultMessages, type), defaultMessages["default"]))

\* A restify error: its class and its message
RestError(kind, message) ==
    [kind |-> kind, message |-> message, raw |-> FALSE, code |-> "", sqlMessage |-> ""]

\* An error object of the store or its driver: its code and its detail text
StoreError(code, sqlMessage) ==
    [kind |-> "store", message |-> sqlMessage, raw |-> TRUE,
     code |-> code, sqlMessage |-> sqlMessage]

\* A faulty variant of chooseError: a custom 'missing' message turns a duplicate into NotFound
chooseErrorKindFromMessage(err, messages) ==
    CASE err.code = "ER_BAD_FIELD_ERROR"  ->
            RestError("BadRequest", chooseMessage("badRequest", messages))
      [] err.code = "ER_DUP_ENTRY"        ->
            IF Truthy(Lookup(messages, "missing"))
            THEN RestError("NotFound", chooseMessage("missing", messages))
            ELSE RestError("Conflict", chooseMessage("conflict", messages))
      [] err.code = "ER_NOT_FOUND"        ->
            RestError("NotFound", chooseMessage("missing", messages))
      [] err.code = "ER_SIGNAL_EXCEPTION" ->
            RestError("BadRequest", err.sqlMessage)
      [] OTHER                            ->
            RestError("InternalServer", chooseMessage("default", messages))

\* switch (err.code): the restify error of a store error
chooseError(err, messages) ==
    CASE err.code = "ER_BAD_FIELD_ERROR"  ->
            RestError("BadRequest", chooseMessage("badRequest", messages))
      [] err.code = "ER_DUP_ENTRY"        ->
            RestError("Conflict", chooseMessage("conflict", messages))
      [] err.code = "ER_NOT_FOUND"        ->
            RestError("NotFound", chooseMessage("missing", messages))
      [] err.code = "ER_SIGNAL_EXCEPTION" ->
            RestError("BadRequest", err.sqlMessage)
      [] OTHER                            ->
            RestError("InternalServer", chooseMessage("default", messages))

(***************************************************************************)
(* Authorization guards: controllers/auth.js                               *)
(***************************************************************************)

\* next() called without an argument
NoError == [kind |-> "none", message |-> "", raw |-> FALSE, code |-> "", sqlMessage |-> ""]

\* No identity attached to the request
NoUser ==
    [userID |-> 0, email |-> Undefined, password |-> Undefined,
     organizationID |-> 0, roleID |-> 0, firstName |-> Undefined, lastName |-> Undefined]

adminRoleID == 1

\* The characters of a path parameter
Chars == {"0", "1", "2", "a", "-"}

Digits == {"0", "1", "2"}

DigitValue(c) == CASE c = "0" -> 0 [] c = "1" -> 1 [] c = "2" -> 2

\* The longest prefix of s made of digits, as a number; acc is the value so far
RECURSIVE DigitsValue(_, _)
DigitsValue(s, acc) ==
    IF s = <<>> \/ Head(s) \notin Digits
    THEN acc
    ELSE DigitsValue(Tail(s), acc * 10 + DigitValue(Head(s)))

\* Number.parseInt(s, 10): an optional sign, then the longest prefix of digits;
\* NaN when there is no digit
ParseInt(s) ==
    LET neg  == s # <<>> /\ Head(s) = "-"
        body == IF neg THEN Tail(s) ELSE s
    IN  IF body = <<>> \/ Head(body) \notin Digits
        THEN [nan |-> TRUE, val |-> 0]
        ELSE [nan |-> FALSE,
              val |-> IF neg THEN 0 - DigitsValue(body, 0) ELSE DigitsValue(body, 0)]

\* n === p for a number n and a parsed number p: NaN equals nothing
StrictEq(n, p) == ~p.nan /\ p.val = n

\* A faulty variant of checkAdmin: every attached identity is let through
checkAdminAnyRole(user) == NoError

\* checkAdmin: the argument given to next
checkAdmin(user) ==
    IF user.roleID = adminRoleID
    THEN NoError
    ELSE RestError("Forbidden", "Must be an administrator")

\* A faulty variant of checkUserMatches: an unparsable path parameter matches every user
checkUserMatchesNaN(user, userIDParam) ==
    IF ParseInt(userIDParam).nan \/ StrictEq(user.userID, ParseInt(userIDParam))
    THEN NoError
    ELSE checkAdmin(user)

\* checkUserMatches: the argument given to next
checkUserMatches(user, userIDParam) ==
    IF StrictEq(user.userID, ParseInt(userIDParam))
    THEN NoError
    ELSE checkAdmin(user)

(***************************************************************************)
(* Requests                                                                *)
(***************************************************************************)

\* The request slots, and the one slot of the sequential specifications
Reqs == {"r1", "r2"}
Sequential == {"r1"}

\* A slot holding no request
IdleReq ==
    [pc        |-> "idle",   \* the handler's position
     op        |-> "none",   \* the handler
     in        |-> <<>>,     \* the request: body, parameters, bearer token
     at        |-> 0,        \* the time the request arrived
     tmp       |-> <<>>,     \* the handler's locals across a suspension
     user      |-> NoUser,   \* req.user
     sent      |-> <<>>,     \* the calls of res.send
     forwarded |-> <<>>,     \* the arguments of the calls of next
     logged    |-> <<>>,     \* the arguments of the calls of req.log.error
     links     |-> <<>>,     \* the navigation links of the calls of paginate.addLinks
     storeOps  |-> 0,        \* store operations of the route's handler that succeeded
     unhandled |-> FALSE]    \* a rejection no catch received

NewReq(op, input) ==
    [IdleReq EXCEPT !.pc = "arrived", !.op = op, !.in = input, !.at = now]

Free(r) == req[r].pc \in {"idle", "done"}

\* res.send(status, body)
Send(q, status, body) ==
    [q EXCEPT !.sent = Append(@, [status |-> status, body |-> body])]

\* next(err)
Forward(q, err) == [q EXCEPT !.forwarded = Append(@, err)]

Finish(q) == [q EXCEPT !.pc = "done"]

\* A promise rejected with no catch in its chain: neither res.send nor next is called
Unhandled(q) == [q EXCEPT !.pc = "done", !.unhandled = TRUE]

(***************************************************************************)
(* The store as the authentication controller uses it                      *)
(***************************************************************************)

\* A store round trip answers (NoFault) or fails with a driver error
NoFault == StoreError("", "")
Faults == {StoreError("PROTOCOL_CONNECTION_LOST", "Connection lost")}

Ok(value) == [ok |-> TRUE, value |-> value, err |-> NoError]
Fail(err) == [ok |-> FALSE, value |-> NoUser, err |-> err]

\* db.get('user', column, value): the user row, or a rejection when none matches
DbGetUser(column, value, fault) ==
    LET matching == {u \in users : u[column] = value}
    IN  IF fault # NoFault THEN Fail(fault)
        ELSE IF matching = {} THEN Fail(StoreError("ER_NOT_FOUND", ""))
        ELSE Ok(CHOOSE u \in matching : TRUE)

\* s with x inserted at position pos
InsertAt(s, pos, x) == SubSeq(s, 1, pos - 1) \o <<x>> \o SubSeq(s, pos, Len(s))

\* The rows of s that belong to the user, in order
RECURSIVE SelectRows(_, _)
SelectRows(s, userID) ==
    IF s = <<>> THEN <<>>
    ELSE IF Head(s).userID = userID
         THEN <<Head(s)>> \o SelectRows(Tail(s), userID)
         ELSE SelectRows(Tail(s), userID)

\* The refresh token persisted last for the user, undefined when there is none
LastIssued(userID) ==
    LET mine == SelectRows(issued, userID)
    IN  IF mine = <<>> THEN Undefined ELSE mine[Len(mine)].refreshToken

\* db('refreshToken').where('userID', userID).first().pluck('refreshToken'):
\* the token of the first matching row in the store's scan order (the query
\* states no order), undefined when none matches
DbFirstRefreshToken(userID) ==
    LET mine == SelectRows(refreshTokens, userID)
    IN  IF mine = <<>> THEN Undefined ELSE mine[1].refreshToken

(***************************************************************************)
(* A resource table                                                        *)
(***************************************************************************)

MaxRow == 2

\* The values of the column kitID
KitIDs == {1, 2}

\* A falsy id: false, undefined, null or 0
NoID == 0

\* No row under an id
NoRow == [id |-> NoID, organizationID |-> NoID, kitID |-> NoID]

\* The empty table
NoRows == [id \in 1..MaxRow |-> NoRow]

(***************************************************************************)
(* Authentication: controllers/auth.js                                     *)
(***************************************************************************)

MaxUsers == 2
MaxTokens == 2

saltRounds == 10
jwtExpirationTime == 15
defaultRoleID == 2
JWT_SECRET == "process.env.JWT_SECRET"

Emails == {"a@b.com", "c@d.com", "e@f.com"}
Passwords == {"secret", "hunter2"}
Salts == {"s1", "s2"}
OrgIDs == {1, 2}

\* bcrypt.hash(password, rounds) with the salt it drew
bcryptHash(password, rounds, salt) ==
    "$2b$" \o ToString(rounds) \o "$" \o salt \o "$" \o password

\* bcrypt.compare(password, hash): the password hashed with the hash's salt is the hash
bcryptCompare(password, hash) ==
    \E salt \in Salts : hash = bcryptHash(password, saltRounds, salt)

\* jwt.sign({userID, organizationID, roleID}, JWT_SECRET, {expiresIn: '15m'}) at time iat
makeToken(userID, organizationID, roleID, iat) ==
    [userID |-> userID, organizationID |-> organizationID, roleID |-> roleID,
     exp |-> iat + jwtExpirationTime, key |-> JWT_SECRET]

\* crypto.randomBytes(40).toString('hex'): the n-th draw; no two draws agree
randomHex(n) == "x" \o ToString(n)

\* user.userID + crypto.randomBytes(40).toString('hex')
makeRefreshToken(userID, n) == ToString(userID) \o randomHex(n)

\* The error of the else branch: the password does not compare
authenticateInvalid ==
    RestError("Unauthorized", "Email and password combination is incorrect")

\* A faulty variant of authenticateCatch: the store's error is classified for the client
authenticateCatchClassified(err) == chooseError(err, NoMessages)

\* The error of the catch: db.get, bcrypt.compare or db.create rejected
authenticateCatch(err) ==
    RestError("Unauthorized", "Email and password combination is incorrect")

\* authenticate up to the end of the password comparison
authenticateCheck(body, fault) ==
    IF ~(Truthy(body.email) /\ Truthy(body.password))
    THEN [outcome |-> "error", cause |-> "missing", user |-> NoUser,
          err |-> RestError("BadRequest", "Missing email or password")]
    ELSE LET got == DbGetUser("email", body.email, fault)
         IN  IF ~got.ok
             THEN [outcome |-> "error", user |-> NoUser,
                   cause |-> IF fault = NoFault THEN "unknownEmail" ELSE "storeFault",
                   err |-> authenticateCatch(got.err)]
             ELSE IF bcryptCompare(body.password, got.value.password)
             THEN [outcome |-> "valid", cause |-> "none", user |-> got.value,
                   err |-> NoError]
             ELSE [outcome |-> "error", cause |-> "wrongPassword", user |-> got.value,
                   err |-> authenticateInvalid]

AuthBodies == [email : Emails \cup {Undefined}, password : Passwords \cup {""}]

\* POST /auth, to the end of bcrypt.compare: the credentials are checked
Authenticate(r) ==
    /\ Free(r)
    /\ \E body \in AuthBodies, fault \in {NoFault} \cup Faults :
        LET q    == NewReq("authenticate", body)
            step == authenticateCheck(body, fault)
        IN  IF step.outcome = "valid"
            THEN /\ entropy < MaxTokens
                 /\ entropy' = entropy + 1
                 /\ req' = [req EXCEPT ![r] =
                        [q EXCEPT !.pc  = "authenticate:create",
                                  !.tmp = [user |-> step.user,
                                           token |-> makeToken(step.user.userID,
                                                        step.user.organizationID,
                                                        step.user.roleID, now),
                                           refreshToken |->
                                               makeRefreshToken(step.user.userID,
                                                                entropy + 1)]]]
                 /\ UNCHANGED authFailSeen
            ELSE /\ req' = [req EXCEPT ![r] = Finish(Forward(q, step.err))]
                 /\ authFailSeen' =
                        IF step.cause \in {"unknownEmail", "wrongPassword"}
                        THEN authFailSeen \cup {[cause |-> step.cause, response |-> step.err]}
                        ELSE authFailSeen
                 /\ UNCHANGED entropy
    /\ UNCHANGED <<storeVars, now, probe, issued, authOK, accepted, removed>>

\* A faulty variant of AuthenticatePersist: the response is sent although
\* db.create rejected
AuthenticatePersistIgnoringFailure(r) ==
    /\ req[r].pc = "authenticate:create"
    /\ \E fault \in {NoFault} \cup Faults, pos \in {1, Len(refreshTokens) + 1} :
        LET q   == req[r]
            row == [userID |-> q.tmp.user.userID, refreshToken |-> q.tmp.refreshToken]
        IN  /\ req' = [req EXCEPT ![r] =
                   [q EXCEPT !.pc = "authenticate:send", !.storeOps = @ + 1]]
            /\ IF fault = NoFault
               THEN /\ refreshTokens' = InsertAt(refreshTokens, pos, row)
                    /\ issued' = Append(issued, row)
                    /\ accepted' = {}
               ELSE UNCHANGED <<refreshTokens, issued, accepted>>
    /\ UNCHANGED <<users, rows, now, entropy, probe, authOK, authFailSeen, removed>>

\* db.create('refreshToken', {userID, refreshToken}): the refresh token is saved.
\* The store scans the new row before the rows it held or after them: of a
\* user's rows, either the new one or the one that was first comes first
AuthenticatePersist(r) ==
    /\ req[r].pc = "authenticate:create"
    /\ \E fault \in {NoFault} \cup Faults, pos \in {1, Len(refreshTokens) + 1} :
        LET q   == req[r]
            row == [userID |-> q.tmp.user.userID, refreshToken |-> q.tmp.refreshToken]
        IN  IF fault = NoFault
            THEN /\ refreshTokens' = InsertAt(refreshTokens, pos, row)
                 /\ issued' = Append(issued, row)
                 /\ accepted' = {}
                 /\ req' = [req EXCEPT ![r] =
                        [q EXCEPT !.pc = "authenticate:send", !.storeOps = @ + 1]]
            ELSE /\ req' = [req EXCEPT ![r] = Finish(Forward(q, authenticateCatch(fault)))]
                 /\ UNCHANGED <<refreshTokens, issued, accepted>>
    /\ UNCHANGED <<users, rows, now, entropy, probe, authOK, authFailSeen, removed>>

\* The body of the response to a successful authentication
authenticateResponse(tmp) ==
    [id |-> tmp.user.userID, refreshToken |-> tmp.refreshToken, token |-> tmp.token,
     message |-> "Authentication successful"]

\* res.send({id, refreshToken, token, message}) once db.create has resolved
AuthenticateSend(r) ==
    /\ req[r].pc = "authenticate:send"
    /\ req' = [req EXCEPT ![r] = Finish(Send(req[r], 200, authenticateResponse(req[r].tmp)))]
    /\ authOK' = [authOK EXCEPT ![req[r].tmp.user.userID] = @ + 1]
    /\ UNCHANGED <<storeVars, now, entropy, probe, issued, authFailSeen, accepted, removed>>

\* The refresh tokens a client can present: those issued, a forged one, none
RefreshBodies ==
    [refreshToken : {row.refreshToken : row \in {issued[i] : i \in DOMAIN issued}}
                        \cup {Undefined, "forged"},
     userID : 0..MaxUsers]

\* req.body.refreshToken === storedToken
refreshMatches(refreshToken, userID) == refreshToken = DbFirstRefreshToken(userID)

\* A faulty variant of refreshStore: the token used is revoked
refreshStoreRevoking(refreshToken, userID) ==
    SelectSeq(refreshTokens,
              LAMBDA row : row # [userID |-> userID, refreshToken |-> refreshToken])

\* The refreshToken table after a refresh: the handler writes nothing
refreshStore(refreshToken, userID) == refreshTokens

\* POST /auth/refresh, to the comparison with the stored token
RefreshFetch(r) ==
    /\ Free(r)
    /\ \E body \in RefreshBodies, fault \in {NoFault} \cup Faults :
        LET q == [NewReq("refresh", body) EXCEPT
                     !.tmp = [wasAccepted |-> <<body.userID, body.refreshToken>> \in accepted,
                              faulted |-> fault # NoFault]]
        IN  IF ~(Truthy(body.refreshToken) /\ body.userID # 0)
            THEN /\ req' = [req EXCEPT ![r] = Finish(Forward(q,
                        RestError("BadRequest",
                                  "Request must contain refresh token and user ID")))]
                 /\ UNCHANGED <<accepted, refreshTokens>>
            ELSE IF fault # NoFault
            THEN /\ req' = [req EXCEPT ![r] = Unhandled(q)]
                 /\ UNCHANGED <<accepted, refreshTokens>>
            ELSE IF refreshMatches(body.refreshToken, body.userID)
            THEN /\ req' = [req EXCEPT ![r] = [q EXCEPT !.pc = "refresh:user"]]
                 /\ accepted' = accepted \cup {<<body.userID, body.refreshToken>>}
                 /\ refreshTokens' = refreshStore(body.refreshToken, body.userID)
            ELSE /\ req' = [req EXCEPT ![r] = Finish(Forward(q,
                        RestError("Unauthorized", "Refresh token is invalid")))]
                 /\ UNCHANGED <<accepted, refreshTokens>>
    /\ UNCHANGED <<users, rows, now, entropy, probe, issued, authOK, authFailSeen, removed>>

\* db('user').where('userID', userID).first(), then res.send({token, message})
RefreshUser(r) ==
    /\ req[r].pc = "refresh:user"
    /\ \E fault \in {NoFault} \cup Faults :
        LET q        == req[r]
            matching == {u \in users : u.userID = q.in.userID}
        IN  IF fault # NoFault \/ matching = {}
            THEN req' = [req EXCEPT ![r] = Unhandled([q EXCEPT !.tmp.faulted = TRUE])]
            ELSE LET user == CHOOSE u \in matching : TRUE
                 IN  req' = [req EXCEPT ![r] = Finish(Send(q, 200,
                         [token |-> makeToken(user.userID, user.organizationID,
                                              user.roleID, now),
                          message |-> "Token refreshed successfully"]))]
    /\ UNCHANGED <<storeVars, now, entropy, probe, histVars>>

required == {"firstName", "lastName", "email", "password", "organizationID"}

\* The bodies of POST /auth/register: every required key, with a roleID or
\* without, and one body for each required key it lacks
RegisterBodies ==
    LET full == [email : Emails, password : Passwords, organizationID : OrgIDs,
                 roleID : {adminRoleID},
                 firstName : {"Ada"}, lastName : {"Lovelace"}]
        base == CHOOSE b \in full : b.email = "e@f.com" /\ b.password = "hunter2"
                                     /\ b.organizationID = 2
    IN  {[k \in K |-> b[k]] : b \in full, K \in {required, required \cup {"roleID"}}}
            \cup {[k \in required \ {missing} |-> base[k]] : missing \in required}

\* required.every(key => bodyKeys.includes(key))
registerComplete(body) == \A key \in required : key \in DOMAIN body

\* A faulty variant of registerHashed: the body is persisted as it came
registerPlaintext(body, salt) == body

\* req.body.password = hash
registerHashed(body, salt) ==
    [body EXCEPT !["password"] = bcryptHash(body["password"], saltRounds, salt)]

\* db.create('user', body): the row the store holds for the body; the store
\* assigns the next userID, and roleID when the body has none
DbUserRow(body, userID) ==
    [userID         |-> userID,
     email          |-> body["email"],
     password       |-> body["password"],
     organizationID |-> body["organizationID"],
     roleID         |-> IF "roleID" \in DOMAIN body THEN body["roleID"] ELSE defaultRoleID,
     firstName      |-> body["firstName"],
     lastName       |-> body["lastName"]]

\* POST /auth/register, to the end of bcrypt.hash
Register(r) ==
    /\ Free(r)
    /\ Cardinality(users) < MaxUsers
    /\ \E body \in RegisterBodies, salt \in Salts :
        LET q == NewReq("register", body)
        IN  IF registerComplete(body)
            THEN req' = [req EXCEPT ![r] =
                     [q EXCEPT !.pc = "register:create",
                               !.tmp = registerHashed(body, salt)]]
            ELSE req' = [req EXCEPT ![r] = Finish(Forward(q, RestError("BadRequest", "")))]
    /\ UNCHANGED <<storeVars, now, entropy, probe, histVars>>

\* db.create('user', req.body), then res.send(201, {id, message}), or catch(next):
\* the store rejects a second user with the same email
RegisterCreate(r) ==
    /\ req[r].pc = "register:create"
    /\ \E fault \in {NoFault} \cup Faults :
        LET q   == req[r]
            row == DbUserRow(q.tmp, Cardinality(users) + 1)
        IN  IF fault # NoFault
            THEN /\ req' = [req EXCEPT ![r] = Finish(Forward(q, fault))]
                 /\ UNCHANGED users
            ELSE IF \E u \in users : u.email = row.email
            THEN /\ req' = [req EXCEPT ![r] =
                        Finish(Forward(q, StoreError("ER_DUP_ENTRY", "Duplicate entry")))]
                 /\ UNCHANGED users
            ELSE /\ users' = users \cup {row}
                 /\ req' = [req EXCEPT ![r] =
                        Finish(Send([q EXCEPT !.storeOps = @ + 1], 201,
                                    [id |-> row.userID,
                                     message |-> "User successfully registered"]))]
    /\ UNCHANGED <<refreshTokens, rows, now, entropy, probe, histVars>>

(***************************************************************************)
(* Registration on its own                                                 *)
(***************************************************************************)

\* No pure function has been called
NoProbe == [fn |-> "none"]

NoRequests ==
    /\ req = [r \in Reqs |-> IdleReq]
    /\ now = 0
    /\ entropy = 0
    /\ probe = NoProbe
    /\ issued = <<>>
    /\ authOK = [u \in 1..MaxUsers |-> 0]
    /\ authFailSeen = {}
    /\ accepted = {}
    /\ removed = {}

InitRegister ==
    /\ users = {}
    /\ refreshTokens = <<>>
    /\ rows = NoRows
    /\ NoRequests

NextRegister ==
    \E r \in Sequential :
        \/ Register(r)
        \/ RegisterCreate(r)

SpecRegister == InitRegister /\ [][NextRegister]_vars

(***************************************************************************)
(* Authentication and refresh of registered users                          *)
(***************************************************************************)

\* Two users as registration leaves them: an administrator of organization 1
\* and a member of organization 2
SeedUsers ==
    LET body(email, org) ==
            [firstName |-> "Ada", lastName |-> "Lovelace", email |-> email,
             password |-> "secret", organizationID |-> org]
    IN  {DbUserRow(registerHashed([k \in required \cup {"roleID"} |->
                        IF k = "roleID" THEN adminRoleID ELSE body("a@b.com", 1)[k]], "s1"), 1),
         DbUserRow(registerHashed(body("c@d.com", 2), "s2"), 2)}

InitAuth ==
    /\ users = SeedUsers
    /\ refreshTokens = <<>>
    /\ rows = NoRows
    /\ NoRequests

NextAuth ==
    \E r \in Sequential :
        \/ Authenticate(r)
        \/ AuthenticatePersist(r)
        \/ AuthenticateSend(r)
        \/ RefreshFetch(r)
        \/ RefreshUser(r)

SpecAuth == InitAuth /\ [][NextAuth]_vars

(***************************************************************************)
(* Properties of the authentication controller                             *)
(***************************************************************************)

Range(s) == {s[i] : i \in DOMAIN s}

\* A request of the handler op that has ended
Ended(r, op) == req[r].op = op /\ req[r].pc = "done"

\* The one response of a successful refresh
RefreshSucceeded(q) ==
    /\ q.forwarded = <<>>
    /\ Len(q.sent) = 1
    /\ q.sent[1].status = 200
    /\ q.sent[1].body.message = "Token refreshed successfully"

RefreshRejected(q) ==
    /\ q.sent = <<>>
    /\ q.forwarded = <<RestError("Unauthorized", "Refresh token is invalid")>>

\* C2: refresh honours exactly the refresh token persisted last for the user:
\* of the tokens issued to a user, the latest one is answered with a new access
\* token and every earlier one with Unauthorized 'Refresh token is invalid'
\* (whenever the store answers the handler's queries).
C2_RefreshHonoursMostRecent ==
    \A r \in Reqs :
        (/\ Ended(r, "refresh")
         /\ ~req[r].tmp.faulted
         /\ [userID |-> req[r].in.userID, refreshToken |-> req[r].in.refreshToken]
                \in Range(issued))
        => IF req[r].in.refreshToken = LastIssued(req[r].in.userID)
           THEN RefreshSucceeded(req[r])
           ELSE RefreshRejected(req[r])

\* C3: a failed authentication answers the same whether the email is unknown or
\* the password is wrong: any two such failures forwarded the one Unauthorized
\* error 'Email and password combination is incorrect', and the step in which
\* an authentication fails stores no refresh token.
C3_AuthFailuresIndistinguishable ==
    /\ [](\A p, q \in authFailSeen :
            /\ p.response = q.response
            /\ p.response = RestError("Unauthorized",
                                      "Email and password combination is incorrect"))
    /\ [][\A r \in Reqs :
            (/\ req'[r] # req[r]
             /\ req'[r].op = "authenticate"
             /\ req'[r].pc = "done"
             /\ req'[r].forwarded # <<>>)
            => refreshTokens' = refreshTokens]_vars

\* Both causes of failure have been seen
C3_Witness == {p.cause : p \in authFailSeen} = {"unknownEmail", "wrongPassword"}

\* The refresh tokens stored for a user
StoredFor(u) == Len(SelectRows(refreshTokens, u))

\* The authentications of a user that have saved their token and not yet answered
AnswerPending(u) ==
    Cardinality({r \in Reqs : req[r].pc = "authenticate:send"
                              /\ req[r].tmp.user.userID = u})

\* C4 as stated: the number of refresh tokens stored for a user always equals
\* the number of 'Authentication successful' responses sent for that user.
C4_StoredEqualsResponses == \A u \in 1..MaxUsers : StoredFor(u) = authOK[u]

\* C4, amended: the refresh tokens stored for a user number the responses
\* 'Authentication successful' sent for that user plus the authentications of
\* that user that have saved their token and not yet sent their response; a
\* response sent carries a refresh token the store holds for that user, and an
\* authentication that ended with an error sent no response.
C4_StoredEqualsResponsesPlusPending ==
    /\ \A u \in 1..MaxUsers : StoredFor(u) = authOK[u] + AnswerPending(u)
    /\ \A r \in Reqs :
        Ended(r, "authenticate") =>
            \/ /\ req[r].forwarded = <<>>
               /\ Len(req[r].sent) = 1
               /\ req[r].sent[1].body.message = "Authentication successful"
               /\ [userID |-> req[r].sent[1].body.id,
                   refreshToken |-> req[r].sent[1].body.refreshToken]
                      \in Range(refreshTokens)
            \/ /\ req[r].sent = <<>>
               /\ Len(req[r].forwarded) = 1
               /\ req[r].storeOps = 0

\* A user has authenticated twice and the second response has been sent
C4_Witness ==
    \E r \in Reqs :
        /\ Ended(r, "authenticate")
        /\ req[r].sent # <<>>
        /\ authOK[req[r].sent[1].body.id] = 2
        /\ StoredFor(req[r].sent[1].body.id) = 2

\* C5: a refresh writes nothing to the store, whether it succeeds or fails, and
\* a refresh token accepted once is accepted by every later refresh until a
\* refresh token is next saved (whenever the store answers the handler's queries).
C5_RefreshDoesNotRotate ==
    /\ [][\A r \in Reqs :
            (req'[r] # req[r] /\ req'[r].op = "refresh")
            => (refreshTokens' = refreshTokens /\ users' = users)]_vars
    /\ [](\A r \in Reqs :
            (Ended(r, "refresh") /\ req[r].tmp.wasAccepted /\ ~req[r].tmp.faulted)
            => RefreshSucceeded(req[r]))

\* A refresh token is accepted a second time
C5_Witness ==
    \E r \in Reqs :
        /\ Ended(r, "refresh")
        /\ req[r].tmp.wasAccepted
        /\ RefreshSucceeded(req[r])

\* C8: register with a required key missing forwards BadRequest and makes no
\* store round trip; every user row the store holds has a salted hash of a
\* password, never a password itself; and a registration the store accepted
\* answers 201 with {id, message}, where id is the id of the row created from
\* the body with its password hashed.
C8_Register ==
    /\ \A u \in users :
        /\ u.password \notin Passwords
        /\ \E password \in Passwords : bcryptCompare(password, u.password)
    /\ \A r \in Reqs :
        Ended(r, "register") =>
            IF ~(required \subseteq DOMAIN req[r].in)
            THEN /\ req[r].forwarded = <<RestError("BadRequest", "")>>
                 /\ req[r].sent = <<>>
                 /\ req[r].storeOps = 0
            ELSE \/ /\ req[r].forwarded = <<>>
                    /\ Len(req[r].sent) = 1
                    /\ req[r].sent[1].status = 201
                    /\ req[r].sent[1].body.message = "User successfully registered"
                    /\ \E u \in users :
                        /\ u.userID = req[r].sent[1].body.id
                        /\ u.email = req[r].in["email"]
                        /\ bcryptCompare(req[r].in["password"], u.password)
                 \/ /\ req[r].sent = <<>>
                    /\ Len(req[r].forwarded) = 1
                    /\ req[r].forwarded[1].raw
                    /\ req[r].storeOps = 0

\* A second user has been registered and answered 201
C8_Witness ==
    \E r \in Reqs :
        /\ Ended(r, "register")
        /\ req[r].sent # <<>>
        /\ req[r].sent[1].status = 201
        /\ req[r].sent[1].body.id = 2

(***************************************************************************)
(* The pure functions on their own: error classification and the guards,   *)
(* each behaviour one call                                                 *)
(***************************************************************************)

MaxParamLen == 2

\* The values of the path parameter userID
ParamStrings == UNION {[1..n -> Chars] : n \in 1..MaxParamLen}

\* The identities a verified request can carry
GuardUsers ==
    {[NoUser EXCEPT !.userID = u, !.roleID = role, !.organizationID = 1] :
        u \in {1, 2, 12}, role \in {1, 2, 3}}

\* The error objects of the store: the codes chooseError names, another code, no code
StoreErrors ==
    {StoreError(code, detail) :
        code \in {"ER_BAD_FIELD_ERROR", "ER_DUP_ENTRY", "ER_NOT_FOUND",
                  "ER_SIGNAL_EXCEPTION", "PROTOCOL_CONNECTION_LOST", Undefined},
        detail \in {"Quantity must be positive", "Rental overlaps"}}

\* The custom messages of an endpoint: each type absent, empty or given
MessageObjects ==
    UNION {[K -> {""}] \cup {[k \in K |-> IF k \in E THEN "" ELSE "custom " \o k] :
                E \in SUBSET K} : K \in SUBSET MessageTypes}

ChooseErrorCall ==
    /\ probe = NoProbe
    /\ \E err \in StoreErrors, messages \in MessageObjects :
        probe' = [fn |-> "chooseError", err |-> err, messages |-> messages,
                  out |-> chooseError(err, messages)]
    /\ UNCHANGED <<storeVars, req, now, entropy, histVars>>

ChooseMessageCall ==
    /\ probe = NoProbe
    /\ \E type \in MessageTypes \cup {"updated"}, messages \in MessageObjects :
        probe' = [fn |-> "chooseMessage", type |-> type, messages |-> messages,
                  out |-> chooseMessage(type, messages)]
    /\ UNCHANGED <<storeVars, req, now, entropy, histVars>>

CheckAdminCall ==
    /\ probe = NoProbe
    /\ \E user \in GuardUsers :
        probe' = [fn |-> "checkAdmin", user |-> user, out |-> checkAdmin(user)]
    /\ UNCHANGED <<storeVars, req, now, entropy, histVars>>

CheckUserMatchesCall ==
    /\ probe = NoProbe
    /\ \E user \in GuardUsers, param \in ParamStrings :
        probe' = [fn |-> "checkUserMatches", user |-> user, param |-> param,
                  out |-> checkUserMatches(user, param)]
    /\ UNCHANGED <<storeVars, req, now, entropy, histVars>>

InitPure ==
    /\ users = {}
    /\ refreshTokens = <<>>
    /\ rows = NoRows
    /\ NoRequests

NextPure ==
    \/ ChooseErrorCall
    \/ ChooseMessageCall
    \/ CheckAdminCall
    \/ CheckUserMatchesCall

SpecPure == InitPure /\ [][NextPure]_vars

\* The custom message of a type when one is given and not empty, else the default
CustomOr(messages, type, default) ==
    IF type \in DOMAIN messages /\ messages[type] # "" THEN messages[type] ELSE default

\* C7: checkAdmin calls next without an error iff the identity's roleID is 1,
\* and otherwise forwards Forbidden 'Must be an administrator';
\* checkUserMatches calls next without an error iff the identity's userID is
\* the integer the path parameter userID parses to or the identity's roleID
\* is 1, and otherwise forwards the same Forbidden.
C7_Guards ==
    LET forbidden == RestError("Forbidden", "Must be an administrator")
    IN  /\ probe.fn = "checkAdmin" =>
            /\ probe.out = NoError <=> probe.user.roleID = 1
            /\ probe.out # NoError => probe.out = forbidden
        /\ probe.fn = "checkUserMatches" =>
            /\ probe.out = NoError <=>
                    \/ probe.user.roleID = 1
                    \/ /\ ~ParseInt(probe.param).nan
                       /\ ParseInt(probe.param).val = probe.user.userID
            /\ probe.out # NoError => probe.out = forbidden

\* A member is refused on another user's path, whose parameter parses to a number
C7_Witness ==
    /\ probe.fn = "checkUserMatches"
    /\ probe.user.roleID = 2
    /\ probe.user.userID = 2
    /\ probe.param = <<"1", "a">>
    /\ probe.out = RestError("Forbidden", "Must be an administrator")

\* C10: the error chooseError returns has the class its code alone decides
\* (ER_BAD_FIELD_ERROR BadRequest, ER_DUP_ENTRY Conflict, ER_NOT_FOUND NotFound,
\* ER_SIGNAL_EXCEPTION BadRequest, any other InternalServerError); its message
\* is the store's detail text for ER_SIGNAL_EXCEPTION and otherwise the custom
\* message of the class's type when one is given, else the default 'Wrong fields',
\* 'Already exists', 'Does not exist' or 'Something went wrong'.
C10_ErrorClassification ==
    probe.fn = "chooseError" =>
        LET code     == probe.err.code
            messages == probe.messages
            out      == probe.out
        IN  /\ ~out.raw
            /\ code = "ER_BAD_FIELD_ERROR" =>
                /\ out.kind = "BadRequest"
                /\ out.message = CustomOr(messages, "badRequest", "Wrong fields")
            /\ code = "ER_DUP_ENTRY" =>
                /\ out.kind = "Conflict"
                /\ out.message = CustomOr(messages, "conflict", "Already exists")
            /\ code = "ER_NOT_FOUND" =>
                /\ out.kind = "NotFound"
                /\ out.message = CustomOr(messages, "missing", "Does not exist")
            /\ code = "ER_SIGNAL_EXCEPTION" =>
                /\ out.kind = "BadRequest"
                /\ out.message = probe.err.sqlMessage
            /\ code \notin {"ER_BAD_FIELD_ERROR", "ER_DUP_ENTRY", "ER_NOT_FOUND",
                            "ER_SIGNAL_EXCEPTION"} =>
                /\ out.kind = "InternalServer"
                /\ out.message = CustomOr(messages, "default", "Something went wrong")

\* A duplicate entry under custom messages for every type: Conflict, with the
\* custom conflict text
C10_Witness ==
    /\ probe.fn = "chooseError"
    /\ probe.err.code = "ER_DUP_ENTRY"
    /\ DOMAIN probe.messages = MessageTypes
    /\ \A k \in MessageTypes : probe.messages[k] = "custom " \o k
    /\ probe.out = RestError("Conflict", "custom conflict")

(***************************************************************************)
(* Query modifiers: controllers/kit.js, and their binding to the request   *)
(***************************************************************************)

Columns == {"id", "organizationID", "kitID"}

\* where(column, value)
Clause(column, value) == [column |-> column, value |-> value]

\* kit.withKitID: queryBuilder.where('kitID', req.params.kitID)
withKitID(params, queryBuilder) ==
    [queryBuilder EXCEPT !.where = Append(@, Clause("kitID", params.kitID))]

\* kit.withModelDetails: queryBuilder.where('kitID', req.params.kitID).select('kitID', ..);
\* the joins add columns of other tables and are left out
withModelDetails(params, queryBuilder) ==
    [queryBuilder EXCEPT !.where  = Append(@, Clause("kitID", params.kitID)),
                         !.select = {"kitID"}]

\* A query parameter the request does not carry
Absent == -1

\* The request carries the query parameter; its text, '0' too, is truthy
Present(value) == value # Absent

\* paginate(queryBuilder, req): limit is called once if the request carries a
\* limit, offset once if it carries an offset
paginate(queryBuilder, params) ==
    [queryBuilder EXCEPT
        !.limit  = IF Present(params.limit) THEN Append(@, params.limit) ELSE @,
        !.offset = IF Present(params.offset) THEN Append(@, params.offset) ELSE @]

\* A modifier that windows the query: paginate, bound as modifiers are
withPage(params, queryBuilder) == paginate(queryBuilder, params)

Modifiers == {"none", "withKitID", "withModelDetails", "withPage"}

\* The parameters of a route without path or query parameters
NoParams == [id |-> NoID, kitID |-> NoID, limit |-> Absent, offset |-> Absent]

\* bindModify: the modifier bound to the request when there is one, else undefined
bindModify(modify, params) ==
    IF modify # "none"
    THEN [fn |-> modify, params |-> params]
    ELSE [fn |-> "none", params |-> NoParams]

(***************************************************************************)
(* The row gateway: services/db.js, from its description                   *)
(***************************************************************************)

\* buildWhere: the organization constraint when an organization is given, then
\* the key constraint when a column is given
buildWhere(column, value, organizationID) ==
    (IF organizationID # NoID
     THEN <<Clause("organizationID", organizationID)>> ELSE <<>>)
    \o (IF column # Undefined THEN <<Clause(column, value)>> ELSE <<>>)

\* query.modify(modify): the bound modifier applied to the query under construction
Modify(modify, queryBuilder) ==
    CASE modify.fn = "withKitID"        -> withKitID(modify.params, queryBuilder)
      [] modify.fn = "withModelDetails" -> withModelDetails(modify.params, queryBuilder)
      [] modify.fn = "withPage"         -> withPage(modify.params, queryBuilder)
      [] OTHER                          -> queryBuilder

\* The query of a gateway operation: base clauses first, then the modifier
Query(column, value, organizationID, modify) ==
    Modify(modify, [where  |-> buildWhere(column, value, organizationID),
                    select |-> Columns,
                    limit  |-> <<>>,
                    offset |-> <<>>])

\* The row satisfies every where clause
Matches(row, where) ==
    /\ row # NoRow
    /\ \A i \in DOMAIN where : row[where[i].column] = where[i].value

\* The ids of the rows of a table that a query selects
Selected(table, where) == {id \in DOMAIN table : Matches(table[id], where)}

\* The selected columns of a row
Project(row, select) == [c \in select |-> row[c]]

\* The ids in increasing order
RECURSIVE Ascending(_)
Ascending(ids) ==
    IF ids = {} THEN <<>>
    ELSE LET least == CHOOSE i \in ids : \A j \in ids : i <= j
         IN  <<least>> \o Ascending(ids \ {least})

\* A gateway operation resolved: its value, the table it leaves, the rows it
\* read or wrote as they were before, and its query
Answer(value, table, touched, query) ==
    [ok |-> TRUE, value |-> value, err |-> NoError, rows |-> table,
     touched |-> touched, query |-> query]

\* A gateway operation rejected
Reject(err, table, touched, query) ==
    [ok |-> FALSE, value |-> NoID, err |-> err, rows |-> table,
     touched |-> touched, query |-> query]

\* The window of a sequence of ids: the offset and the limit the query was
\* last given, an absent offset none skipped and an absent limit all taken
Window(ids, query) ==
    LET skip == IF query.offset = <<>> THEN 0 ELSE query.offset[Len(query.offset)]
        take == IF query.limit = <<>> THEN Len(ids) ELSE query.limit[Len(query.limit)]
        last == IF skip + take < Len(ids) THEN skip + take ELSE Len(ids)
    IN  SubSeq(ids, skip + 1, last)

\* db.getAll(table, organizationID, modify): the selected rows in key order,
\* within the query's window
DbGetAll(organizationID, modify, fault) ==
    LET query == Query(Undefined, NoID, organizationID, modify)
        ids   == Window(Ascending(Selected(rows, query.where)), query)
    IN  IF fault # NoFault THEN Reject(fault, rows, {}, query)
        ELSE Answer([i \in DOMAIN ids |-> Project(rows[ids[i]], query.select)],
                    rows, {rows[ids[i]] : i \in DOMAIN ids}, query)

\* db.get(table, column, value, organizationID, modify) on a table: the first
\* selected row, or a rejection when there is none
DbGetFrom(table, column, value, organizationID, modify, fault) ==
    LET query == Query(column, value, organizationID, modify)
        ids   == Ascending(Selected(table, query.where))
    IN  IF fault # NoFault THEN Reject(fault, table, {}, query)
        ELSE IF ids = <<>> THEN Reject(StoreError("ER_NOT_FOUND", ""), table, {}, query)
        ELSE Answer(Project(table[ids[1]], query.select), table, {table[ids[1]]}, query)

DbGet(column, value, organizationID, modify, fault) ==
    DbGetFrom(rows, column, value, organizationID, modify, fault)

\* The row a payload describes: an absent column is null
RowOf(body) == [c \in Columns |-> IF c \in DOMAIN body THEN body[c] ELSE NoID]

\* db.create(table, column, payload, {modify, resModify}) on a table of the
\* given columns: the payload is inserted and the created row fetched again by
\* its key; a row with the same key, or a row with a null column, is rejected
DbCreateIn(columns, column, body, modify, resModify, fault) ==
    LET row   == RowOf(body)
        query == Query(column, row[column], NoID, resModify)
    IN  IF fault # NoFault THEN Reject(fault, rows, {}, query)
        ELSE IF \E c \in columns : row[c] = NoID
        THEN Reject(StoreError("ER_BAD_NULL_ERROR", "Column cannot be null"),
                    rows, {}, query)
        ELSE IF rows[row.id] # NoRow
        THEN Reject(StoreError("ER_DUP_ENTRY", "Duplicate entry"), rows, {}, query)
        ELSE LET table == [rows EXCEPT ![row.id] = row]
             IN  Answer(Project(row, query.select), table, {}, query)

\* db.create on a table with all the columns
DbCreate(column, body, modify, resModify, fault) ==
    DbCreateIn(Columns, column, body, modify, resModify, fault)

\* db.update(table, column, value, payload, organizationID, {modify, resModify}):
\* the selected rows take the payload's columns, and the row is fetched again
\* through the same constraints
DbUpdate(column, value, body, organizationID, modify, resModify, fault) ==
    LET query == Query(column, value, organizationID, modify)
        ids   == Selected(rows, query.where)
        table == [id \in DOMAIN rows |->
                    IF id \in ids
                    THEN [c \in Columns |-> IF c \in DOMAIN body THEN body[c]
                                                                 ELSE rows[id][c]]
                    ELSE rows[id]]
        again == DbGetFrom(table, column, value, organizationID, resModify, NoFault)
    IN  IF fault # NoFault THEN Reject(fault, rows, {}, query)
        ELSE [again EXCEPT !.touched = {rows[id] : id \in ids}, !.query = query]

\* db.delete(table, column, value, organizationID, modify): the selected rows
\* are removed; the number of rows removed
DbDelete(column, value, organizationID, modify, fault) ==
    LET query == Query(column, value, organizationID, modify)
        ids   == Selected(rows, query.where)
    IN  IF fault # NoFault THEN Reject(fault, rows, {}, query)
        ELSE Answer(Cardinality(ids),
                    [id \in DOMAIN rows |-> IF id \in ids THEN NoRow ELSE rows[id]],
                    {rows[id] : id \in ids}, query)

(***************************************************************************)
(* Token verification: passport-jwt, from its description, and             *)
(* auth.authenticateToken                                                  *)
(***************************************************************************)

\* The instants of the clock
Instants == {0, jwtExpirationTime}

\* No Authorization header
NoToken == [userID |-> 0, organizationID |-> 0, roleID |-> 0, exp |-> 0, key |-> ""]

\* A user whose row has been deleted since their token was signed
FormerUser == [NoUser EXCEPT !.userID = 3, !.organizationID = 1, !.roleID = adminRoleID]

\* The bearer tokens a client can present at time t: none, one signed with
\* another key, and those signed for a user at an instant up to t
Tokens(t) ==
    {NoToken, [makeToken(1, 1, adminRoleID, t) EXCEPT !.key = "forged"]}
        \cup {makeToken(u.userID, u.organizationID, u.roleID, iat) :
                u \in users \cup {FormerUser}, iat \in {i \in Instants : i <= t}}

\* The token is present, signed with the secret and not expired at time t
jwtVerify(token, t) == token # NoToken /\ token.key = JWT_SECRET /\ t < token.exp

\* A faulty variant of authenticateTokenDone: when the user row cannot be
\* fetched, the token's payload is taken as the identity
authenticateTokenTrustingPayload(payload, got) ==
    IF got.ok
    THEN [err |-> NoError, user |-> got.value]
    ELSE [err |-> NoError,
          user |-> [NoUser EXCEPT !.userID = payload.userID,
                                  !.organizationID = payload.organizationID,
                                  !.roleID = payload.roleID]]

\* auth.authenticateToken: done(null, user) when db.get resolves, done(err) when
\* it rejects
authenticateTokenDone(payload, got) ==
    IF got.ok
    THEN [err |-> NoError, user |-> got.value]
    ELSE [err |-> got.err, user |-> NoUser]

(***************************************************************************)
(* The endpoint factory: services/endpoint.js                              *)
(***************************************************************************)

\* The custom messages of an endpoint
KitMessages == [delete |-> "Kit deleted", missing |-> "Kit does not exist"]

\* The options handlers are built with
Configs ==
    {[hasOrganizationID |-> TRUE,  modify |-> "none",             messages |-> NoMessages],
     [hasOrganizationID |-> TRUE,  modify |-> "withKitID",        messages |-> KitMessages],
     [hasOrganizationID |-> TRUE,  modify |-> "withModelDetails", messages |-> NoMessages],
     [hasOrganizationID |-> FALSE, modify |-> "withKitID",        messages |-> NoMessages]}

Ops == {"getAll", "get", "create", "update", "delete"}

\* The routes mounted with auth.verify: a handler of the factory and its options
Routes == {[op |-> op, cfg |-> cfg] : op \in Ops, cfg \in Configs}

\* No request body
NoBody == <<>>

CreateBodies ==
    {[id |-> i, kitID |-> k] : i \in 1..MaxRow, k \in KitIDs}
        \cup {[id |-> i, kitID |-> k, organizationID |-> o] :
                i \in 1..MaxRow, k \in KitIDs, o \in OrgIDs \cup {NoID}}

UpdateBodies ==
    {[kitID |-> k] : k \in KitIDs} \cup {[organizationID |-> o] : o \in OrgIDs}

\* The values of the query parameters limit and offset
Limits == {Absent, 2}
Offsets == {Absent, 0, 4}

\* The path parameters, query parameters and bodies of the requests of a
\* route; a route whose modifier reads no kitID has none in its path
Inputs(route) ==
    LET ids  == DOMAIN rows
        kits == IF route.cfg.modify \in {"none", "withPage"} \/ route.op = "create"
                THEN {NoID} ELSE KitIDs
    IN  CASE route.op = "getAll" ->
                {[params |-> [NoParams EXCEPT !.kitID = k, !.limit = l, !.offset = o],
                  body |-> NoBody] : k \in kits, l \in Limits, o \in Offsets}
          [] route.op \in {"get", "delete"} ->
                {[params |-> [NoParams EXCEPT !.id = i, !.kitID = k], body |-> NoBody] :
                    i \in ids, k \in kits}
          [] route.op = "create" ->
                {[params |-> [NoParams EXCEPT !.kitID = k], body |-> b] :
                    k \in kits, b \in CreateBodies}
          [] route.op = "update" ->
                {[params |-> [NoParams EXCEPT !.id = i, !.kitID = k], body |-> b] :
                    i \in ids, k \in kits, b \in UpdateBodies}

\* A faulty variant of OrgArg: no organization is handed to the gateway
OrgArgUnscoped(hasOrganizationID, user) == NoID

\* hasOrganizationID && req.user.organizationID
OrgArg(hasOrganizationID, user) ==
    IF hasOrganizationID THEN user.organizationID ELSE NoID

\* A faulty variant of createBody: the caller's organization ID replaces the
\* one the body supplies
createBodyOverwriting(hasOrganizationID, body, user) ==
    IF hasOrganizationID /\ user # NoUser
    THEN [k \in DOMAIN body \cup {"organizationID"} |->
            IF k = "organizationID" THEN user.organizationID ELSE body[k]]
    ELSE body

\* create: the organization ID is added to the body if it is missing
createBody(hasOrganizationID, body, user) ==
    IF /\ hasOrganizationID
       /\ ~("organizationID" \in DOMAIN body /\ body["organizationID"] # NoID)
       /\ user # NoUser
    THEN [k \in DOMAIN body \cup {"organizationID"} |->
            IF k = "organizationID" THEN user.organizationID ELSE body[k]]
    ELSE body

\* A faulty variant of deleteResponse: a deletion is reported whatever the
\* number of rows affected
deleteResponseAlways(rowsAffected, messages, id) ==
    [status |-> 200, body |-> [message |-> chooseMessage("delete", messages), id |-> id]]

\* A faulty variant of deleteResponse: an empty 204 whatever the number of
\* rows affected
deleteResponseNever(rowsAffected, messages, id) == [status |-> 204, body |-> NoBody]

\* delete: {message, id} if rowsAffected > 0, else an empty 204
deleteResponse(rowsAffected, messages, id) ==
    IF rowsAffected > 0
    THEN [status |-> 200,
          body |-> [message |-> chooseMessage("delete", messages), id |-> id]]
    ELSE [status |-> 204, body |-> NoBody]

\* The handler reads the path parameters and the body of its request
WithInput(q, input) == [q EXCEPT !.in.params = input.params, !.in.body = input.body]

\* The handler's gateway call has settled: then on an answer, catch on a rejection
Called(q, got) ==
    [q EXCEPT !.pc       = IF got.ok THEN "then" ELSE "catch",
              !.tmp      = [got |-> got,
                            again |-> q.op = "delete" /\ q.in.params.id \in removed],
              !.storeOps = IF got.ok THEN @ + 1 ELSE @]

\* The payload the handler handed to the gateway is kept with the call
Passed(q, payload) ==
    [q EXCEPT !.tmp = [got |-> @.got, again |-> @.again, payload |-> payload]]

Faultable == {NoFault} \cup Faults

\* Time passes
Tick ==
    /\ \E t \in Instants : t > now /\ now' = t
    /\ UNCHANGED <<storeVars, req, entropy, probe, histVars>>

\* auth.verify, to the end of the token's verification: a request arrives on
\* one of the routes; without a valid token it is answered 401
VerifyOn(r, routes) ==
    /\ req[r].pc = "idle"
    /\ \E route \in routes, token \in Tokens(now) :
        LET q == NewReq(route.op, [route |-> route, token |-> token,
                                   params |-> NoParams, body |-> NoBody])
        IN  IF jwtVerify(token, now)
            THEN req' = [req EXCEPT ![r] = [q EXCEPT !.pc = "verify:user"]]
            ELSE req' = [req EXCEPT ![r] = Finish(Send(q, 401, "Unauthorized"))]
    /\ UNCHANGED <<storeVars, now, entropy, probe, histVars>>

\* auth.verify on the routes of a resource
Verify(r) == VerifyOn(r, Routes)

\* auth.authenticateToken: the user of the payload is fetched and attached, and
\* the route's handler is next; an error is forwarded and ends the request
AuthenticateToken(r) ==
    /\ req[r].pc = "verify:user"
    /\ \E fault \in Faultable :
        LET q    == req[r]
            done == authenticateTokenDone(q.in.token,
                        DbGetUser("userID", q.in.token.userID, fault))
        IN  IF done.err # NoError
            THEN req' = [req EXCEPT ![r] = Finish(Forward(q, done.err))]
            ELSE req' = [req EXCEPT ![r] = [q EXCEPT !.pc = "handler", !.user = done.user]]
    /\ UNCHANGED <<storeVars, now, entropy, probe, histVars>>

\* endpoint.getAll, to the gateway's answer
GetAll(r) ==
    /\ req[r].pc = "handler"
    /\ req[r].op = "getAll"
    /\ \E input \in Inputs(req[r].in.route), fault \in Faultable :
        LET q   == WithInput(req[r], input)
            cfg == q.in.route.cfg
            got == DbGetAll(OrgArg(cfg.hasOrganizationID, q.user),
                            bindModify(cfg.modify, q.in.params), fault)
        IN  /\ req' = [req EXCEPT ![r] = Called(q, got)]
            /\ rows' = got.rows
    /\ UNCHANGED <<users, refreshTokens, now, entropy, probe, histVars>>

\* endpoint.get, to the gateway's answer
Get(r) ==
    /\ req[r].pc = "handler"
    /\ req[r].op = "get"
    /\ \E input \in Inputs(req[r].in.route), fault \in Faultable :
        LET q   == WithInput(req[r], input)
            cfg == q.in.route.cfg
            got == DbGet("id", q.in.params.id, OrgArg(cfg.hasOrganizationID, q.user),
                         bindModify(cfg.modify, q.in.params), fault)
        IN  /\ req' = [req EXCEPT ![r] = Called(q, got)]
            /\ rows' = got.rows
    /\ UNCHANGED <<users, refreshTokens, now, entropy, probe, histVars>>

\* endpoint.create, to the gateway's answer
Create(r) ==
    /\ req[r].pc = "handler"
    /\ req[r].op = "create"
    /\ \E input \in Inputs(req[r].in.route), fault \in Faultable :
        LET q       == WithInput(req[r], input)
            cfg     == q.in.route.cfg
            payload == createBody(cfg.hasOrganizationID, q.in.body, q.user)
            got     == DbCreate("id", payload,
                                bindModify(cfg.modify, q.in.params),
                                bindModify("none", q.in.params), fault)
        IN  /\ req' = [req EXCEPT ![r] = Passed(Called(q, got), payload)]
            /\ rows' = got.rows
            /\ removed' = IF got.ok THEN removed \ {q.in.body.id} ELSE removed
    /\ UNCHANGED <<users, refreshTokens, now, entropy, probe,
                   issued, authOK, authFailSeen, accepted>>

\* endpoint.update, to the gateway's answer
Update(r) ==
    /\ req[r].pc = "handler"
    /\ req[r].op = "update"
    /\ \E input \in Inputs(req[r].in.route), fault \in Faultable :
        LET q   == WithInput(req[r], input)
            cfg == q.in.route.cfg
            got == DbUpdate("id", q.in.params.id, q.in.body,
                            OrgArg(cfg.hasOrganizationID, q.user),
                            bindModify(cfg.modify, q.in.params),
                            bindModify("none", q.in.params), fault)
        IN  /\ req' = [req EXCEPT ![r] = Called(q, got)]
            /\ rows' = got.rows
    /\ UNCHANGED <<users, refreshTokens, now, entropy, probe, histVars>>

\* endpoint.delete, to the gateway's answer
Delete(r) ==
    /\ req[r].pc = "handler"
    /\ req[r].op = "delete"
    /\ \E input \in Inputs(req[r].in.route), fault \in Faultable :
        LET q   == WithInput(req[r], input)
            cfg == q.in.route.cfg
            got == DbDelete("id", q.in.params.id, OrgArg(cfg.hasOrganizationID, q.user),
                            bindModify(cfg.modify, q.in.params), fault)
        IN  /\ req' = [req EXCEPT ![r] = Called(q, got)]
            /\ rows' = got.rows
            /\ removed' = removed \cup {row.id : row \in got.touched}
    /\ UNCHANGED <<users, refreshTokens, now, entropy, probe,
                   issued, authOK, authFailSeen, accepted>>

\* result.sortIndex = i
WithSortIndex(results) ==
    [i \in DOMAIN results |->
        [c \in DOMAIN results[i] \cup {"sortIndex"} |->
            IF c = "sortIndex" THEN i - 1 ELSE results[i][c]]]

\* A faulty variant of wantsLinks: an offset alone asks for no links
wantsLinksLimitOnly(params) == Present(params.limit)

\* A faulty variant of wantsLinks: links are added to every response
wantsLinksAlways(params) == TRUE

\* req.params && (req.params.limit || req.params.offset)
wantsLinks(params) == Present(params.limit) \/ Present(params.offset)

\* A navigation link: the path's query parameters
Link(rel, offset, limit) == [l \in {rel} |-> [offset |-> offset, limit |-> limit]]

\* paginate.addLinks: next at offset + limit unless the page is shorter than
\* the limit, prev at offset - limit, floored at 0, when the offset is
\* positive; an absent offset counts as 0, and with no limit there is no
\* next and prev is at 0
addLinks(params, pageLength) ==
    LET offset == IF Present(params.offset) THEN params.offset ELSE 0
        next   == IF Present(params.limit) /\ ~(pageLength < params.limit)
                  THEN Link("next", offset + params.limit, params.limit)
                  ELSE <<>>
        back   == IF Present(params.limit) /\ offset > params.limit
                  THEN offset - params.limit ELSE 0
        prev   == IF offset > 0 THEN Link("prev", back, params.limit) ELSE <<>>
    IN  [l \in DOMAIN next \cup DOMAIN prev |->
            IF l \in DOMAIN next THEN next[l] ELSE prev[l]]

\* getAll's then: the links are added if the request has pagination
\* parameters, then res.send({results}) and next
GetAllThen(r) ==
    /\ req[r].pc = "then"
    /\ req[r].op = "getAll"
    /\ LET q       == req[r]
           results == WithSortIndex(q.tmp.got.value)
           linked  == IF wantsLinks(q.in.params)
                      THEN [q EXCEPT !.links =
                                Append(@, addLinks(q.in.params, Len(results)))]
                      ELSE q
       IN  req' = [req EXCEPT ![r] =
               Finish(Forward(Send(linked, 200, [results |-> results]), NoError))]
    /\ UNCHANGED <<storeVars, now, entropy, probe, histVars>>

\* get's, create's and update's then: res.send(row), then next
RowThen(r) ==
    /\ req[r].pc = "then"
    /\ req[r].op \in {"get", "create", "update"}
    /\ req' = [req EXCEPT ![r] =
           Finish(Forward(Send(req[r], 200, req[r].tmp.got.value), NoError))]
    /\ UNCHANGED <<storeVars, now, entropy, probe, histVars>>

\* delete's then: the response the number of rows affected decides, and next()
DeleteThen(r) ==
    /\ req[r].pc = "then"
    /\ req[r].op = "delete"
    /\ LET q        == req[r]
           response == deleteResponse(q.tmp.got.value, q.in.route.cfg.messages,
                                      q.in.params.id)
       IN  req' = [req EXCEPT ![r] =
               Finish(Forward(Send(q, response.status, response.body), NoError))]
    /\ UNCHANGED <<storeVars, now, entropy, probe, histVars>>

\* A faulty variant of HandleError: the error is sent as a response as well as
\* forwarded
HandleErrorSending(r) ==
    /\ req[r].pc = "catch"
    /\ LET q   == req[r]
           err == chooseError(q.tmp.got.err, q.in.route.cfg.messages)
       IN  req' = [req EXCEPT ![r] =
               Finish(Forward(Send([q EXCEPT !.logged = Append(@, q.tmp.got.err)],
                                   500, err.message), err))]
    /\ UNCHANGED <<storeVars, now, entropy, probe, histVars>>

\* handleError: req.log.error(err), then next(chooseError(err, messages))
HandleError(r) ==
    /\ req[r].pc = "catch"
    /\ LET q == req[r]
       IN  req' = [req EXCEPT ![r] =
               Finish(Forward([q EXCEPT !.logged = Append(@, q.tmp.got.err)],
                              chooseError(q.tmp.got.err, q.in.route.cfg.messages)))]
    /\ UNCHANGED <<storeVars, now, entropy, probe, histVars>>

\* The request is over and its slot takes the next one
Retire(r) ==
    /\ req[r].pc = "done"
    /\ req' = [req EXCEPT ![r] = IdleReq]
    /\ UNCHANGED <<storeVars, now, entropy, probe, histVars>>

(***************************************************************************)
(* Verified requests to the routes of a resource                           *)
(***************************************************************************)

InitCrud ==
    /\ users = SeedUsers
    /\ refreshTokens = <<>>
    /\ rows = NoRows
    /\ NoRequests

NextCrud ==
    \/ Tick
    \/ \E r \in Sequential :
        \/ Verify(r)
        \/ AuthenticateToken(r)
        \/ GetAll(r)
        \/ Get(r)
        \/ Create(r)
        \/ Update(r)
        \/ Delete(r)
        \/ GetAllThen(r)
        \/ RowThen(r)
        \/ DeleteThen(r)
        \/ HandleError(r)
        \/ Retire(r)

SpecCrud == InitCrud /\ [][NextCrud]_vars

(***************************************************************************)
(* Verified requests to the kit-model routes                               *)
(***************************************************************************)

\* The kit table, which the kit-model handlers neither read nor write: the
\* organization each kit belongs to
KitOwner == [k \in KitIDs |-> k]

\* The columns of the kitModel table: the model's id and the kit's; it has no
\* organizationID
KitModelColumns == {"id", "kitID"}

\* The bodies of createKitModel: a modelID, or none
KitModelBodies == {[id |-> i] : i \in {NoID} \cup (1..MaxRow)}

\* The options the kit-model handlers are built with
KitModelRoutes ==
    {[op  |-> "getAll",
      cfg |-> [hasOrganizationID |-> FALSE, modify |-> "withModelDetails",
               messages |-> NoMessages]],
     [op  |-> "create",
      cfg |-> [hasOrganizationID |-> FALSE, modify |-> "none", messages |-> NoMessages]],
     [op  |-> "update",
      cfg |-> [hasOrganizationID |-> FALSE, modify |-> "withKitID",
               messages |-> NoMessages]],
     [op  |-> "delete",
      cfg |-> [hasOrganizationID |-> FALSE, modify |-> "withKitID",
               messages |-> NoMessages]]}

\* auth.verify on the kit-model routes
VerifyKitModel(r) == VerifyOn(r, KitModelRoutes)

\* req.body.kitID = req.params.kitID
createKitModelBody(params, body) ==
    [k \in DOMAIN body \cup {"kitID"} |-> IF k = "kitID" THEN params.kitID ELSE body[k]]

\* kit.createKitModel: without a modelID in the body BadRequest is forwarded;
\* with one the body takes the path's kitID and endpoint.create's handler
\* for kitModel, built with hasOrganizationID false, takes over
CreateKitModel(r) ==
    /\ req[r].pc = "handler"
    /\ req[r].op = "create"
    /\ \E kitID \in KitIDs, body \in KitModelBodies, fault \in Faultable :
        LET q       == WithInput(req[r], [params |-> [NoParams EXCEPT !.kitID = kitID],
                                          body   |-> body])
            cfg     == q.in.route.cfg
            payload == createBody(cfg.hasOrganizationID,
                                  createKitModelBody(q.in.params, q.in.body), q.user)
            got     == DbCreateIn(KitModelColumns, "id", payload,
                                  bindModify(cfg.modify, q.in.params),
                                  bindModify("none", q.in.params), fault)
        IN  IF body.id = NoID
            THEN /\ fault = NoFault
                 /\ req' = [req EXCEPT ![r] = Finish(Forward(q,
                                RestError("BadRequest", "missing modelID in body")))]
                 /\ UNCHANGED <<rows, removed>>
            ELSE /\ req' = [req EXCEPT ![r] = Passed(Called(q, got), payload)]
                 /\ rows' = got.rows
                 /\ removed' = IF got.ok THEN removed \ {body.id} ELSE removed
    /\ UNCHANGED <<users, refreshTokens, now, entropy, probe,
                   issued, authOK, authFailSeen, accepted>>

\* Kit-model entries of the kits, and no request
InitKitModel ==
    /\ users = SeedUsers
    /\ refreshTokens = <<>>
    /\ \E kitOf \in [1..MaxRow -> {NoID} \cup KitIDs] :
            rows = [i \in 1..MaxRow |->
                        IF kitOf[i] = NoID THEN NoRow
                        ELSE [id |-> i, organizationID |-> NoID, kitID |-> kitOf[i]]]
    /\ NoRequests

NextKitModel ==
    \E r \in Sequential :
        \/ VerifyKitModel(r)
        \/ AuthenticateToken(r)
        \/ GetAll(r)
        \/ CreateKitModel(r)
        \/ Update(r)
        \/ Delete(r)
        \/ GetAllThen(r)
        \/ RowThen(r)
        \/ DeleteThen(r)
        \/ HandleError(r)
        \/ Retire(r)

SpecKitModel == InitKitModel /\ [][NextKitModel]_vars

(***************************************************************************)
(* Two delete requests in flight at the same time                          *)
(***************************************************************************)

\* The delete routes of kit.mount: kit.delete and kit.deleteKitModel
DeleteRoutes ==
    {[op  |-> "delete",
      cfg |-> [hasOrganizationID |-> TRUE, modify |-> "none", messages |-> NoMessages]],
     [op  |-> "delete",
      cfg |-> [hasOrganizationID |-> FALSE, modify |-> "withKitID",
               messages |-> NoMessages]]}

\* auth.verify on the delete routes
VerifyDelete(r) == VerifyOn(r, DeleteRoutes)

\* Every row exists, each of some organization
InitDeletes ==
    /\ users = SeedUsers
    /\ refreshTokens = <<>>
    /\ \E org \in [1..MaxRow -> OrgIDs] :
            rows = [i \in 1..MaxRow |-> [id |-> i, organizationID |-> org[i], kitID |-> 1]]
    /\ NoRequests

\* Each of two requests takes its steps when the event loop runs it; the
\* store executes a delete in one step
NextDeletes ==
    \E r \in Reqs :
        \/ VerifyDelete(r)
        \/ AuthenticateToken(r)
        \/ Delete(r)
        \/ DeleteThen(r)
        \/ HandleError(r)

SpecDeletes == InitDeletes /\ [][NextDeletes]_vars

(***************************************************************************)
(* Verified getAll requests with query parameters over a collection        *)
(***************************************************************************)

PageRows == 5

\* The options of a getAll handler whose modifier paginates, and of one whose
\* modifier does not
PageConfigs ==
    {[hasOrganizationID |-> TRUE, modify |-> "withPage", messages |-> NoMessages],
     [hasOrganizationID |-> TRUE, modify |-> "none",     messages |-> NoMessages]}

PageRoutes == {[op |-> "getAll", cfg |-> cfg] : cfg \in PageConfigs}

\* auth.verify on the getAll routes
VerifyPage(r) == VerifyOn(r, PageRoutes)

\* A collection of up to PageRows rows, each of some organization
InitPage ==
    /\ users = SeedUsers
    /\ refreshTokens = <<>>
    /\ \E n \in 0..PageRows : \E org \in [1..n -> OrgIDs] :
            rows = [i \in 1..PageRows |->
                        IF i <= n THEN [id |-> i, organizationID |-> org[i], kitID |-> 1]
                        ELSE NoRow]
    /\ NoRequests

NextPage ==
    \/ Tick
    \/ \E r \in Sequential :
        \/ VerifyPage(r)
        \/ AuthenticateToken(r)
        \/ GetAll(r)
        \/ GetAllThen(r)
        \/ HandleError(r)
        \/ Retire(r)

SpecPage == InitPage /\ [][NextPage]_vars

(***************************************************************************)
(* Properties of the routes of a resource                                  *)
(***************************************************************************)

\* The route's handler has been entered
HandlerEntered(q) ==
    \/ q.pc \in {"handler", "then", "catch"}
    \/ q.pc = "done" /\ DOMAIN q.tmp # {}

\* The request carries a token signed with the secret that had not expired
\* when the request arrived
TokenGood(q) ==
    /\ q.in.token # NoToken
    /\ q.in.token.key = JWT_SECRET
    /\ q.in.token.exp > q.at

\* C1: a getAll, get, update or delete handler built with hasOrganizationID
\* true never returns, modifies or removes a row of another organization than
\* its caller's, whatever the modifier: every row its gateway call read or
\* wrote was the caller's organization's, every row it sends that has the
\* column carries the caller's organizationID, the first constraint of its
\* query is the equality on organizationID, ahead of the modifier's clauses,
\* and a step of an update or a delete changes rows of the caller's
\* organization only (the caller's organizationID being a positive id).
C1_TenantIsolation ==
    /\ [](\A r \in Reqs :
            LET q == req[r]
            IN  (/\ q.op \in {"getAll", "get", "update", "delete"}
                 /\ DOMAIN q.tmp # {}
                 /\ q.in.route.cfg.hasOrganizationID)
                => /\ \A row \in q.tmp.got.touched :
                        row.organizationID = q.user.organizationID
                   /\ Len(q.tmp.got.query.where) >= 1
                   /\ q.tmp.got.query.where[1] =
                        Clause("organizationID", q.user.organizationID)
                   /\ (q.sent # <<>> /\ q.op = "getAll") =>
                        \A i \in DOMAIN q.sent[1].body.results :
                            "organizationID" \in DOMAIN q.sent[1].body.results[i]
                            => q.sent[1].body.results[i]["organizationID"]
                                    = q.user.organizationID
                   /\ (q.sent # <<>> /\ q.op \in {"get", "update"}) =>
                        ("organizationID" \in DOMAIN q.sent[1].body
                         => q.sent[1].body["organizationID"] = q.user.organizationID))
    /\ [][\A r \in Reqs :
            (/\ req[r].pc = "handler"
             /\ req[r].op \in {"getAll", "get", "update", "delete"}
             /\ req[r].in.route.cfg.hasOrganizationID)
            => \A id \in DOMAIN rows :
                rows'[id] # rows[id]
                => rows[id].organizationID = req[r].user.organizationID]_vars

\* A caller's scoped delete of another organization's row, the modifier
\* matching it, is answered 204 and the row is still there
C1_Witness ==
    \E r \in Reqs :
        /\ Ended(r, "delete")
        /\ req[r].in.route.cfg.hasOrganizationID
        /\ req[r].in.route.cfg.modify = "withKitID"
        /\ req[r].sent # <<>>
        /\ req[r].sent[1].status = 204
        /\ rows[req[r].in.params.id] # NoRow
        /\ rows[req[r].in.params.id].kitID = req[r].in.params.kitID
        /\ rows[req[r].in.params.id].organizationID # req[r].user.organizationID

\* C6: on a route mounted with auth.verify the handler is entered only by a
\* request whose token verified and to which the user row of the token's
\* userID is attached; a request whose token is absent, signed with another
\* key or expired ends at once with the one response 401 Unauthorized, its
\* handler is never entered and it makes no store operation; and the resource
\* table changes only in a step of an entered handler.
C6_VerifyGatesHandlers ==
    /\ [](\A r \in Reqs :
            LET q == req[r]
            IN  q.op \in Ops =>
                /\ HandlerEntered(q) =>
                    /\ TokenGood(q)
                    /\ q.user \in users
                    /\ q.user.userID = q.in.token.userID
                /\ ~TokenGood(q) =>
                    /\ q.pc = "done"
                    /\ q.sent = <<[status |-> 401, body |-> "Unauthorized"]>>
                    /\ q.forwarded = <<>>
                    /\ q.storeOps = 0
                    /\ q.user = NoUser
                    /\ ~HandlerEntered(q))
    /\ [][rows' # rows =>
            \E r \in Reqs : /\ req[r].pc = "handler"
                            /\ TokenGood(req[r])
                            /\ req[r].user \in users]_vars

\* A token of a user, signed with the secret and expired, has been answered 401
C6_Witness ==
    \E r \in Reqs :
        /\ req[r].op \in Ops
        /\ req[r].pc = "done"
        /\ req[r].in.token.key = JWT_SECRET
        /\ req[r].in.token.userID = 1
        /\ req[r].in.token.exp <= req[r].at
        /\ req[r].sent = <<[status |-> 401, body |-> "Unauthorized"]>>

\* The row is one the delete request is about: it has the id of the path, the
\* caller's organization when the handler is scoped, and the kitID of the path
\* when the handler has a modifier
Visible(q, row) ==
    /\ row # NoRow
    /\ row.id = q.in.params.id
    /\ q.in.route.cfg.hasOrganizationID => row.organizationID = q.user.organizationID
    /\ q.in.route.cfg.modify # "none" => row.kitID = q.in.params.kitID

\* C9: a delete whose id matches no row sends an empty 204 and leaves the
\* table as it was; a delete whose id matches a row removes it and sends
\* {message, id}, the message 'Deleted' or the custom delete message and the
\* id the path parameter; a delete of an id that a delete removed, no create
\* having written it since, sends an empty 204 and leaves the table as it was
\* (whenever the store answers the delete).
C9_DeleteIdempotence ==
    /\ [](\A r \in Reqs :
            LET q == req[r]
            IN  (Ended(r, "delete") /\ DOMAIN q.tmp # {} /\ q.tmp.got.ok) =>
                /\ q.tmp.got.touched = {} =>
                    /\ Len(q.sent) = 1
                    /\ q.sent[1].status = 204
                    /\ q.sent[1].body = NoBody
                /\ q.tmp.got.touched # {} =>
                    /\ Len(q.sent) = 1
                    /\ q.sent[1].status = 200
                    /\ q.sent[1].body =
                        [message |-> CustomOr(q.in.route.cfg.messages, "delete", "Deleted"),
                         id      |-> q.in.params.id]
                /\ q.tmp.again => q.sent[1].status = 204)
    /\ [][\A r \in Reqs :
            (req[r].pc = "handler" /\ req[r].op = "delete" /\ req'[r].pc = "then") =>
                LET q   == req'[r]
                    vis == {id \in DOMAIN rows : Visible(q, rows[id])}
                IN  /\ rows' = [id \in DOMAIN rows |->
                                    IF id \in vis THEN NoRow ELSE rows[id]]
                    /\ q.tmp.got.touched = {rows[id] : id \in vis}
                    /\ q.tmp.again => rows' = rows]_vars

\* The delete of an id whose row a delete has removed was answered 204
C9_Witness ==
    \E r \in Reqs :
        /\ Ended(r, "delete")
        /\ DOMAIN req[r].tmp # {}
        /\ req[r].tmp.again
        /\ req[r].tmp.got.ok
        /\ req[r].sent # <<>>
        /\ req[r].sent[1].status = 204

(***************************************************************************)
(* Properties of error forwarding                                          *)
(***************************************************************************)

\* C11: whenever a store operation of a handler fails, the error given to
\* next is a classified error and never the store's own error object, and
\* the store's error has been logged once; here for register, whose requests
\* with a complete body make one store operation.
C11_NoRawStoreError ==
    \A r \in Reqs :
        Ended(r, "register") =>
            /\ \A i \in DOMAIN req[r].forwarded : ~req[r].forwarded[i].raw
            /\ (DOMAIN req[r].tmp # {} /\ req[r].forwarded # <<>>)
                    => Len(req[r].logged) = 1


(***************************************************************************)
(* Properties of pagination                                                *)
(***************************************************************************)

\* A getAll request that was answered with its results
Listed(r) ==
    /\ Ended(r, "getAll")
    /\ Len(req[r].sent) = 1
    /\ req[r].sent[1].status = 200

\* The number of rows of the caller's organization
CollectionSize(q) ==
    Cardinality({id \in DOMAIN rows :
        rows[id].id # NoID /\ rows[id].organizationID = q.user.organizationID})

\* The request was made to a route whose modifier paginates
Windowed(q) == q.in.route.cfg.modify = "withPage"

Times(calls) == Len(calls)

Supplies(body) == "organizationID" \in DOMAIN body /\ body["organizationID"] # NoID

\* C14: a create handler built with hasOrganizationID true hands the store the
\* caller's organizationID exactly when the body supplies no truthy one and a
\* user is attached; an organizationID the body supplies is handed over as
\* supplied, with hasOrganizationID false none is added, and every other field
\* is handed over as the request gave it.
C14_CreateBackFill ==
    \A r \in Reqs :
        LET q       == req[r]
            has     == q.in.route.cfg.hasOrganizationID
            body    == q.in.body
            payload == q.tmp.payload
            filled  == has /\ ~Supplies(body) /\ q.user # NoUser
        IN  (q.op = "create" /\ DOMAIN q.tmp # {}) =>
                /\ filled => /\ "organizationID" \in DOMAIN payload
                             /\ payload.organizationID = q.user.organizationID
                /\ ~filled => payload = body
                /\ Supplies(body) => payload.organizationID = body.organizationID
                /\ ~has => DOMAIN payload = DOMAIN body
                /\ DOMAIN payload \subseteq DOMAIN body \cup {"organizationID"}
                /\ \A k \in DOMAIN body \ {"organizationID"} : payload[k] = body[k]

\* A row was created with the caller's organization filled in, the body having
\* supplied none
C14_Witness ==
    \E r \in Reqs :
        /\ Ended(r, "create")
        /\ DOMAIN req[r].tmp # {}
        /\ req[r].in.route.cfg.hasOrganizationID
        /\ "organizationID" \notin DOMAIN req[r].in.body
        /\ req[r].tmp.got.ok
        /\ rows[req[r].in.body.id].organizationID = req[r].user.organizationID
        /\ Len(req[r].sent) = 1


\* The handler of the request has returned and its promise chain has settled
HandlerEnded(q) == q.pc = "done" /\ DOMAIN q.tmp # {}

\* C15: a request whose handler of the factory has ended either had its
\* gateway operation succeed, one response sent and next called once without
\* an error, or had it fail, no response sent and next called once with an
\* error; a response and a forwarded error never occur together.
C15_ExactlyOneOutcome ==
    \A r \in Reqs :
        LET q == req[r]
        IN  /\ (q.op \in Ops /\ HandlerEnded(q)) =>
                /\ Len(q.forwarded) = 1
                /\ ~q.unhandled
                /\ IF q.tmp.got.ok
                   THEN Len(q.sent) = 1 /\ q.forwarded[1] = NoError
                   ELSE /\ q.sent = <<>>
                        /\ q.forwarded[1] # NoError
                        /\ q.forwarded[1].kind \in
                              {"BadRequest", "NotFound", "Conflict", "InternalServer"}
            /\ (q.op \in Ops /\ HandlerEntered(q)) =>
                ~(q.sent # <<>> /\ \E i \in DOMAIN q.forwarded : q.forwarded[i] # NoError)

\* An update failed at the store and was forwarded as an error with no
\* response
C15_Witness ==
    \E r \in Reqs :
        /\ Ended(r, "update")
        /\ DOMAIN req[r].tmp # {}
        /\ ~req[r].tmp.got.ok
        /\ req[r].sent = <<>>
        /\ Len(req[r].forwarded) = 1
        /\ req[r].forwarded[1] # NoError


\* C16: a request to an auth handler that ended without a response ended with
\* an error given to next, and no rejection of its promise chain was left
\* uncaught; here for authenticate and refresh with a failing store.
C16_AuthFailuresForwarded ==
    \A r \in Reqs :
        (req[r].pc = "done" /\ req[r].op \in {"authenticate", "refresh", "register"}) =>
            /\ ~req[r].unhandled
            /\ req[r].sent = <<>> =>
                    /\ Len(req[r].forwarded) = 1
                    /\ req[r].forwarded[1] # NoError


(***************************************************************************)
(* Properties of the kit-model routes                                      *)
(***************************************************************************)

\* The request's store operation returned, created, changed or removed a
\* kit-model entry
Reached(q) ==
    /\ q.tmp.got.ok
    /\ CASE q.op = "getAll" -> q.tmp.got.touched # {}
         [] q.op = "create" -> TRUE
         [] q.op = "update" -> q.tmp.got.touched # {}
         [] q.op = "delete" -> q.tmp.got.touched # {}
         [] OTHER           -> FALSE

\* C17: a request to getAllKitModels, createKitModel, updateKitModel or
\* deleteKitModel reads, creates, changes or removes entries only of a kit
\* that belongs to the caller's organization, whatever kitID its path gives.
C17_KitModelTenantIsolation ==
    \A r \in Reqs :
        LET q == req[r]
        IN  (q.op \in Ops /\ DOMAIN q.tmp # {} /\ Reached(q)) =>
                KitOwner[q.in.params.kitID] = q.user.organizationID


(***************************************************************************)
(* Properties of deletes in flight at the same time                        *)
(***************************************************************************)

\* The store has answered the request's delete
DeleteAnswered(q) ==
    /\ q.op = "delete"
    /\ q.pc \in {"then", "done"}
    /\ DOMAIN q.tmp # {}
    /\ q.tmp.got.ok

\* The row of an id as it was before any delete: the row still in the table,
\* or the one a delete has removed
Original(id) ==
    IF rows[id] # NoRow THEN rows[id]
    ELSE LET gone == UNION {req[r].tmp.got.touched : r \in {x \in Reqs : DeleteAnswered(req[x])}}
         IN  IF \E row \in gone : row.id = id
             THEN CHOOSE row \in gone : row.id = id
             ELSE NoRow

\* The request answered that it deleted the row of its id
ReportsDeletion(q) ==
    /\ Len(q.sent) = 1
    /\ q.sent[1].status = 200
    /\ DOMAIN q.sent[1].body = {"message", "id"}
    /\ q.sent[1].body.id = q.in.params.id

\* The request answered with an empty 204
ReportsNothing(q) ==
    /\ Len(q.sent) = 1
    /\ q.sent[1].status = 204
    /\ q.sent[1].body = NoBody

\* C18: of two delete requests for the same existing row that the store has
\* both answered, in whatever order their steps were taken, exactly one
\* removed the row; once both have responded, that one has answered
\* {message, id} and the other an empty 204.
C18_ConcurrentDeletes ==
    \A r1, r2 \in Reqs :
        LET q1 == req[r1]
            q2 == req[r2]
        IN  (/\ r1 # r2
             /\ DeleteAnswered(q1)
             /\ DeleteAnswered(q2)
             /\ q1.in.params.id = q2.in.params.id
             /\ Visible(q1, Original(q1.in.params.id))
             /\ Visible(q2, Original(q2.in.params.id))) =>
                /\ (q1.tmp.got.value > 0) # (q2.tmp.got.value > 0)
                /\ q1.tmp.got.value + q2.tmp.got.value = 1
                /\ (q1.pc = "done" /\ q2.pc = "done") =>
                    \/ ReportsDeletion(q1) /\ ReportsNothing(q2)
                    \/ ReportsNothing(q1) /\ ReportsDeletion(q2)

\* Two deletes of the same row were in flight together, the store having
\* answered both and neither having responded
C18_InFlight ==
    /\ req["r1"].pc = "then"
    /\ req["r2"].pc = "then"
    /\ DeleteAnswered(req["r1"])
    /\ DeleteAnswered(req["r2"])
    /\ req["r1"].in.params.id = req["r2"].in.params.id
    /\ Visible(req["r1"], Original(req["r1"].in.params.id))
    /\ Visible(req["r2"], Original(req["r2"].in.params.id))
    /\ req["r1"].tmp.got.value = 0
    /\ req["r2"].tmp.got.value = 1

====
